---- MODULE Spec2Model ----
(***************************************************************************)
(* A model of src/app.py: the FundAnalyzer class (NAV ingestion, the       *)
(* return / XIRR / Sharpe calculators, the recommendation scoring) and the *)
(* metrics bundle the /analyze handler takes from them.                    *)
(*                                                                         *)
(* Conventions of the model                                                *)
(*   - a timestamp is a whole day number (an integer);                     *)
(*   - a Python float is an exact rational n/d, or one of the IEEE special *)
(*     values nan / inf / ninf, or "approx": a finite float whose value    *)
(*     the model does not track (an irrational root or power);             *)
(*   - None is the value of kind "none"; a raised exception is a value     *)
(*     whose kind is the exception's name.                                 *)
(***************************************************************************)
EXTENDS Integers, Sequences, FiniteSets

VARIABLES raw_data, fetch, phase, df, risk_free_rate, call, metrics, result

vars == <<raw_data, fetch, phase, df, risk_free_rate, call, metrics, result>>

(***************************************************************************)
(* Bounds of the model and constants of the program                        *)
(***************************************************************************)
MaxRecords == 3
MaxDay == 2
MaxNav == 2
Slack == 1
MaxMonths == 1
MaxYears == 2

DaysPerMonth == 30
DaysPerYear == 365
TradingDays == 252
DefaultRiskFreeRate == 4
MaxIterations == 100
ToleranceDen == 10000

(***************************************************************************)
(* Values: floats as rationals, IEEE specials, None, raised exceptions     *)
(***************************************************************************)
Abs(x) == IF x < 0 THEN -x ELSE x

RECURSIVE Gcd(_, _)
Gcd(a, b) == IF b = 0 THEN a ELSE Gcd(b, a % b)

Val(kind) == [k |-> kind, n |-> 0, d |-> 1]

None == Val("none")
NaN == Val("nan")
Inf == Val("inf")
NegInf == Val("ninf")
Approx == Val("approx")
TypeError == Val("TypeError")
KeyError == Val("KeyError")

IsNum(v) == v.k = "num"

\* The float n/d (d # 0), kept in lowest terms with a positive denominator.
Num(n, d) ==
    LET g == Gcd(Abs(n), Abs(d))
        s == IF d < 0 THEN -1 ELSE 1
    IN  [k |-> "num", n |-> (s * n) \div g, d |-> (s * d) \div g]

Int2Num(i) == [k |-> "num", n |-> i, d |-> 1]

\* numpy's float division a/b of two finite numbers: no exception on b = 0.
FloatDiv(an, ad, bn, bd) ==
    IF bn # 0 THEN Num(an * bd, ad * bn)
    ELSE IF an > 0 THEN Inf
    ELSE IF an < 0 THEN NegInf
    ELSE NaN

NumAdd(a, b) == Num(a.n * b.d + b.n * a.d, a.d * b.d)

NumSub(a, b) == Num(a.n * b.d - b.n * a.d, a.d * b.d)

NumMul(a, b) == Num(a.n * b.n, a.d * b.d)

NumLess(a, b) == a.n * b.d < b.n * a.d

\* Python's  a > b  on two floats: every comparison with nan is False.
FloatGreater(a, b) ==
    CASE a.k = "nan" \/ b.k = "nan" -> FALSE
      [] a.k = "inf" -> b.k # "inf"
      [] a.k = "ninf" -> FALSE
      [] b.k = "inf" -> FALSE
      [] b.k = "ninf" -> TRUE
      [] OTHER -> NumLess(b, a)

(***************************************************************************)
(* FundAnalyzer._preprocess_data                                           *)
(***************************************************************************)
Record(t, v) == [timestamp |-> t, nav |-> v]

Timestamps(s) == {s[i].timestamp : i \in 1..Len(s)}

MinOf(S) == CHOOSE x \in S : \A y \in S : x <= y

MaxOf(S) == -MinOf({-x : x \in S})

\* The ways to order rows that all share one timestamp.
TieOrders(s) ==
    LET n == Len(s)
        bij == {p \in [1..n -> 1..n] : \A i, j \in 1..n : p[i] = p[j] => i = j}
    IN  {[i \in 1..n |-> s[p[i]]] : p \in bij}

NotAfter(t, r) == r.timestamp <= t

After(t, r) == r.timestamp > t

\* The ascending orders of the rows of s, whose timestamps lie in lo..hi,
\* found by halving lo..hi.
RECURSIVE SortRange(_, _, _)
SortRange(s, lo, hi) ==
    IF Len(s) <= 1 THEN {s}
    ELSE IF lo = hi THEN TieOrders(s)
    ELSE LET mid == (lo + hi) \div 2
         IN  {a \o b :
                 a \in SortRange(SelectSeq(s, LAMBDA r : NotAfter(mid, r)), lo, mid),
                 b \in SortRange(SelectSeq(s, LAMBDA r : After(mid, r)), mid + 1, hi)}

\* df.sort_values('timestamp'): ascending by timestamp.  The default kind is
\* quicksort, which is not stable, so rows that share a timestamp may end in
\* any relative order.  No row is dropped.
SortValues(s) ==
    IF s = <<>> THEN {<<>>}
    ELSE SortRange(s, MinOf(Timestamps(s)), MaxOf(Timestamps(s)))

\* df['nav'].pct_change(): nan for the first row, nav[i]/nav[i-1] - 1 after.
PctChange(s, i) ==
    IF i = 1 THEN NaN
    ELSE FloatDiv(s[i].nav - s[i - 1].nav, 1, s[i - 1].nav, 1)

WithDailyReturns(s) ==
    [i \in 1..Len(s) |->
        [timestamp |-> s[i].timestamp, nav |-> s[i].nav,
         daily_returns |-> PctChange(s, i)]]

\* The frames _preprocess_data may return; empty input has no 'timestamp'
\* column and df['timestamp'] raises KeyError.
PreprocessData(raw) ==
    IF raw = <<>> THEN {}
    ELSE {WithDailyReturns(s) : s \in SortValues(raw)}

(***************************************************************************)
(* FundAnalyzer._get_risk_free_rate                                        *)
(***************************************************************************)
FetchValues == {3, 5}

\* What yf.download can do: deliver a frame with a last Close, raise, or
\* deliver an empty frame (bond['Close'].iloc[-1] then raises IndexError).
FetchOutcomes ==
    {[k |-> "value", v |-> v] : v \in FetchValues}
        \cup {[k |-> "error", v |-> 0], [k |-> "empty", v |-> 0]}

\* GetRiskFreeRate without the except clause's fallback.
GetRiskFreeRateNoFallback(f) == f.v

GetRiskFreeRate(f) ==
    IF f.k = "value" THEN f.v ELSE DefaultRiskFreeRate

(***************************************************************************)
(* Date-range selection and calculate_absolute_returns                     *)
(***************************************************************************)
\* InRange with the end bound exclusive.
InRangeOpenEnd(start, end, r) == r.timestamp >= start /\ r.timestamp < end

InRange(start, end, r) == r.timestamp >= start /\ r.timestamp <= end

PeriodData(frame, start, end) ==
    SelectSeq(frame, LAMBDA r : InRange(start, end, r))

MaxTimestamp(frame) == MaxOf(Timestamps(frame))

CalculateAbsoluteReturns(frame, start, end) ==
    LET period == PeriodData(frame, start, end)
    IN  IF Len(period) < 2 THEN None
        ELSE LET initial == period[1].nav
                 final == period[Len(period)].nav
             IN  FloatDiv((final - initial) * 100, 1, initial, 1)

(***************************************************************************)
(* calculate_rolling_returns and the rolling metric of analyze             *)
(***************************************************************************)
\* The returns appended for window starts i = from, from+1, ... , last
\* (0-based, as range(len(period_data) - window_days + 1) yields them).
RECURSIVE RollingWindows(_, _, _, _, _)
RollingWindows(frame, period, window_days, from, last) ==
    IF from > last THEN <<>>
    ELSE LET window_slice == SubSeq(period, from + 1, from + window_days)
             ret == CalculateAbsoluteReturns(frame,
                        window_slice[1].timestamp,
                        window_slice[Len(window_slice)].timestamp)
             more == RollingWindows(frame, period, window_days, from + 1, last)
         IN  IF ret # None THEN <<ret>> \o more ELSE more

CalculateRollingReturns(frame, window_months) ==
    LET end == MaxTimestamp(frame)
        window_days == window_months * DaysPerMonth
        start == end - window_days
        period == PeriodData(frame, start, end)
    IN  RollingWindows(frame, period, window_days, 0, Len(period) - window_days)

RECURSIVE SumNums(_)
SumNums(s) == IF s = <<>> THEN Int2Num(0) ELSE NumAdd(s[1], SumNums(Tail(s)))

NotNaN(v) == v.k # "nan"

HasKind(s, kind) == \E i \in 1..Len(s) : s[i].k = kind

\* pandas Series.mean(): nan values are skipped; the mean of nothing is nan.
SeriesMean(series) ==
    LET vals == SelectSeq(series, NotNaN)
    IN  IF vals = <<>> THEN NaN
        ELSE IF HasKind(vals, "inf") /\ HasKind(vals, "ninf") THEN NaN
        ELSE IF HasKind(vals, "inf") THEN Inf
        ELSE IF HasKind(vals, "ninf") THEN NegInf
        ELSE LET total == SumNums(vals)
             IN  Num(total.n, total.d * Len(vals))

\* analyze: 'rolling_returns': calculate_rolling_returns(...).mean()
RollingMetric(frame, window_months) ==
    SeriesMean(CalculateRollingReturns(frame, window_months))

(***************************************************************************)
(* calculate_cagr                                                          *)
(***************************************************************************)
RECURSIVE Pow(_, _)
Pow(b, e) == IF e = 0 THEN 1 ELSE b * Pow(b, e - 1)

HasRoot(x, y) == \E r \in 0..x : Pow(r, y) = x

RootOf(x, y) == CHOOSE r \in 0..x : Pow(r, y) = x

\* x ** (1/years) for a finite float x: exact where the root is rational,
\* an untracked float otherwise; numpy gives nan for a negative base.
YearRoot(x, years) ==
    IF years = 1 THEN x
    ELSE IF x.n < 0 THEN NaN
    ELSE IF HasRoot(x.n, years) /\ HasRoot(x.d, years)
         THEN Num(RootOf(x.n, years), RootOf(x.d, years))
    ELSE Approx

CalculateCagr(frame, years) ==
    LET end == MaxTimestamp(frame)
        start == end - years * DaysPerYear
        period == PeriodData(frame, start, end)
    IN  IF Len(period) < 2 THEN None
        ELSE LET initial == period[1].nav
                 final == period[Len(period)].nav
                 ratio == FloatDiv(final, 1, initial, 1)
                 root == IF IsNum(ratio) THEN YearRoot(ratio, years) ELSE ratio
             IN  IF IsNum(root)
                 THEN NumMul(NumSub(root, Int2Num(1)), Int2Num(100))
                 ELSE root

(***************************************************************************)
(* calculate_sharpe_ratio                                                  *)
(***************************************************************************)
DefinedReturn(r) == r.daily_returns.k # "nan"

\* The result is sqrt(252) * mean / std of the window's defined excess
\* returns: a float the model does not evaluate.  It records what the float
\* was computed from: the rows of the window, how many of their daily
\* returns are defined (pandas skips nan), and the risk-free rate read.
CalculateSharpeRatio(frame, rate, window_years) ==
    LET end == MaxTimestamp(frame)
        start == end - window_years * DaysPerYear
        period == PeriodData(frame, start, end)
    IN  IF Len(period) < TradingDays THEN None
        ELSE [k |-> "approx", n |-> Len(SelectSeq(period, DefinedReturn)),
              d |-> 1, rows |-> Len(period), rate |-> rate]

(***************************************************************************)
(* calculate_xirr                                                          *)
(*                                                                         *)
(* The operands are Python objects: floats (kinds "num" and "approx") and  *)
(* pandas Timestamps (kind "ts", n = the day).  An operation Python does   *)
(* not define for its operands' types yields TypeError, and an operation   *)
(* on a TypeError operand is never reached: the error propagates.          *)
(***************************************************************************)
Timestamp(day) == [k |-> "ts", n |-> day, d |-> 1]

IsFloat(v) == v.k \in {"num", "approx"}

PyNeg(a) ==
    IF a.k = "num" THEN Num(-a.n, a.d)
    ELSE IF a.k = "approx" THEN Approx
    ELSE TypeError

PyAdd(a, b) ==
    IF ~(IsFloat(a) /\ IsFloat(b)) THEN TypeError
    ELSE IF a.k = "num" /\ b.k = "num" THEN NumAdd(a, b)
    ELSE Approx

PySub(a, b) ==
    IF ~(IsFloat(a) /\ IsFloat(b)) THEN TypeError
    ELSE IF a.k = "num" /\ b.k = "num" THEN NumSub(a, b)
    ELSE Approx

PyMul(a, b) ==
    IF ~(IsFloat(a) /\ IsFloat(b)) THEN TypeError
    ELSE IF a.k = "num" /\ b.k = "num" THEN NumMul(a, b)
    ELSE Approx

PyDiv(a, b) ==
    IF ~(IsFloat(a) /\ IsFloat(b)) THEN TypeError
    ELSE IF a.k = "num" /\ b.k = "num" THEN FloatDiv(a.n, a.d, b.n, b.d)
    ELSE Approx

\* a ** b: exact for a whole non-negative exponent, untracked otherwise.
PyPow(a, b) ==
    IF ~(IsFloat(a) /\ IsFloat(b)) THEN TypeError
    ELSE IF a.k = "num" /\ b.k = "num" /\ b.d = 1 /\ b.n >= 0
         THEN Num(Pow(a.n, b.n), Pow(a.d, b.n))
    ELSE Approx

RECURSIVE PySum(_)
PySum(s) ==
    IF s = <<>> THEN Int2Num(0)
    ELSE IF s[1].k = "TypeError" THEN TypeError
    ELSE LET rest == PySum(Tail(s))
         IN  IF rest.k = "TypeError" THEN TypeError ELSE PyAdd(s[1], rest)

\* (d - dates[0]).days / 365.0: Timestamp - Timestamp is a Timedelta.
YearFraction(d, first) ==
    IF d.k = "ts" /\ first.k = "ts" THEN Num(d.n - first.n, DaysPerYear)
    ELSE TypeError

Xnpv(cashflows, dates, rate) ==
    PySum([i \in 1..Len(cashflows) |->
        PyDiv(cashflows[i],
              PyPow(PyAdd(Int2Num(1), rate), YearFraction(dates[i], dates[1])))])

\* sum([-cf*d/(1+rate)**(d+1) for cf, d in zip(cashflows, dates)]): d is the
\* Timestamp itself, not a day count.
XnpvDerivative(cashflows, dates, rate) ==
    PySum([i \in 1..Len(cashflows) |->
        PyDiv(PyMul(PyNeg(cashflows[i]), dates[i]),
              PyPow(PyAdd(Int2Num(1), rate), PyAdd(dates[i], Int2Num(1))))])

NewRate(cashflows, dates, rate) ==
    LET npv == Xnpv(cashflows, dates, rate)
        slope == XnpvDerivative(cashflows, dates, rate)
    IN  IF npv.k = "TypeError" \/ slope.k = "TypeError" THEN TypeError
        ELSE PySub(rate, PyDiv(npv, slope))

Tolerance == Num(1, ToleranceDen)

NumAbs(a) == Num(Abs(a.n), a.d)

\* The for loop from iteration iter: it returns the converged rate * 100,
\* None after MaxIterations iterations, or raises.  An untracked or
\* non-finite iterate leaves the model's arithmetic: its outcome is Approx.
RECURSIVE Newton(_, _, _, _)
Newton(cashflows, dates, rate, iter) ==
    IF iter >= MaxIterations THEN None
    ELSE LET new_rate == NewRate(cashflows, dates, rate)
         IN  IF new_rate.k = "TypeError" THEN TypeError
             ELSE IF new_rate.k # "num" THEN Approx
             ELSE IF NumLess(NumAbs(NumSub(new_rate, rate)), Tolerance)
                  THEN NumMul(new_rate, Int2Num(100))
             ELSE Newton(cashflows, dates, new_rate, iter + 1)

FlowAmount(f) == Int2Num(f.amount)

FlowDate(f) == Timestamp(f.date)

\* additional_flows: a sequence of [date, amount]; <<>> for None or no flows.
CalculateXirr(frame, start, end, additional_flows) ==
    LET period == PeriodData(frame, start, end)
    IN  IF Len(period) < 2 THEN None
        ELSE LET first == period[1]
                 last == period[Len(period)]
                 cashflows == <<Int2Num(-first.nav)>>
                                \o [i \in 1..Len(additional_flows) |->
                                        FlowAmount(additional_flows[i])]
                                \o <<Int2Num(last.nav)>>
                 dates == <<Timestamp(first.timestamp)>>
                            \o [i \in 1..Len(additional_flows) |->
                                    FlowDate(additional_flows[i])]
                            \o <<Timestamp(last.timestamp)>>
             IN  Newton(cashflows, dates, Num(1, 10), 0)

(***************************************************************************)
(* get_investment_recommendation                                           *)
(***************************************************************************)
\* Python 3 defines no order between None and a number: None > x raises.
Unordered(v) == v.k = "none"

\* SharpeBand with the thresholds inclusive (>= for >).
SharpeBandInclusive(v) ==
    IF ~FloatGreater(Num(3, 2), v) /\ v.k # "nan" THEN 3
    ELSE IF ~FloatGreater(Int2Num(1), v) /\ v.k # "nan" THEN 2
    ELSE IF ~FloatGreater(Num(1, 2), v) /\ v.k # "nan" THEN 1
    ELSE 0

SharpeBand(v) ==
    IF FloatGreater(v, Num(3, 2)) THEN 3
    ELSE IF FloatGreater(v, Int2Num(1)) THEN 2
    ELSE IF FloatGreater(v, Num(1, 2)) THEN 1
    ELSE 0

SharpeReason(points) ==
    CASE points = 3 -> "Excellent risk-adjusted returns"
      [] points = 2 -> "Good risk-adjusted returns"
      [] points = 1 -> "Moderate risk-adjusted returns"
      [] OTHER -> "Poor risk-adjusted returns"

CagrBand(v) ==
    IF FloatGreater(v, Int2Num(15)) THEN 3
    ELSE IF FloatGreater(v, Int2Num(10)) THEN 2
    ELSE IF FloatGreater(v, Int2Num(7)) THEN 1
    ELSE 0

CagrReason(points) ==
    CASE points = 3 -> "Strong consistent growth"
      [] points = 2 -> "Good consistent growth"
      [] points = 1 -> "Moderate growth"
      [] OTHER -> "Weak growth"

RollingBand(v) ==
    IF FloatGreater(v, Int2Num(12)) THEN 2
    ELSE IF FloatGreater(v, Int2Num(8)) THEN 1
    ELSE 0

RollingReason(points) ==
    CASE points = 2 -> "Strong periodic performance"
      [] points = 1 -> "Decent periodic performance"
      [] OTHER -> "Inconsistent performance"

TimingBand(x, c) == IF FloatGreater(x, c) THEN 1 ELSE 0

TimingReasons(points) ==
    IF points = 1 THEN <<"Beneficial investment timing">> ELSE <<>>

Recommendation(score) ==
    IF score >= 7 THEN "BUY MORE UNITS"
    ELSE IF score >= 4 THEN "CONTINUE HOLDING"
    ELSE "EXIT FUND"

ActionItems(score) ==
    IF score >= 7
    THEN <<"Consider increasing allocation", "Look for dips to add units",
           "Maintain SIP if applicable">>
    ELSE IF score >= 4
    THEN <<"Monitor performance closely", "Maintain current investment",
           "Review in 3 months">>
    ELSE <<"Look for better alternatives", "Plan systematic withdrawal",
           "Consider tax implications before exit">>

\* The four comparisons run in order; the first one that meets None raises.
GetInvestmentRecommendation(m) ==
    IF Unordered(m.sharpe_ratio) THEN TypeError
    ELSE IF Unordered(m.cagr) THEN TypeError
    ELSE IF Unordered(m.rolling_returns) THEN TypeError
    ELSE IF Unordered(m.xirr) THEN TypeError
    ELSE LET sp == SharpeBand(m.sharpe_ratio)
             cp == CagrBand(m.cagr)
             rp == RollingBand(m.rolling_returns)
             tp == TimingBand(m.xirr, m.cagr)
             score == sp + cp + rp + tp
         IN  [k |-> "recommendation",
              recommendation |-> Recommendation(score),
              score |-> score,
              reasons |-> <<SharpeReason(sp), CagrReason(cp), RollingReason(rp)>>
                              \o TimingReasons(tp),
              action_items |-> ActionItems(score)]

(***************************************************************************)
(* Inputs                                                                  *)
(***************************************************************************)
Days == 0..MaxDay

\* Every collection of at most MaxRecords records with navs from lowest up,
\* in every order.
SmallInputs(lowest) ==
    LET records == {Record(t, v) : t \in Days, v \in lowest..MaxNav}
    IN  UNION {[1..n -> records] : n \in 0..MaxRecords}

\* A fund quoted once a day for n days, flat or see-sawing; with lead, one
\* observation LeadGap days before the daily run starts.
LeadGap == 2 * DaysPerYear

NavPattern(p, i) == IF p = "flat" THEN 10 ELSE 10 + (i % 3)

DailySeries(n, p, lead) ==
    IF lead
    THEN <<Record(0, 10)>> \o [i \in 1..n |-> Record(LeadGap + i, NavPattern(p, i))]
    ELSE [i \in 1..n |-> Record(i - 1, NavPattern(p, i))]

Reversed(s) == [i \in 1..Len(s) |-> s[Len(s) + 1 - i]]

\* Lengths around the rolling window of one month and around TradingDays.
SeriesLengths ==
    ((DaysPerMonth - Slack)..(DaysPerMonth + 1 + Slack))
        \cup ((TradingDays - Slack)..(TradingDays + Slack))

\* The schedule [-100 @ day 0, +110 @ day 365].
RoundTripInput == <<Record(0, 100), Record(DaysPerYear, 110)>>

DailyInputs ==
    {DailySeries(n, p, lead) :
        n \in SeriesLengths, p \in {"flat", "saw"}, lead \in BOOLEAN}

LongInputs ==
    DailyInputs \cup {Reversed(s) : s \in DailyInputs}
        \cup {RoundTripInput, <<>>}

QueryDates == {0, DaysPerYear}

\* No additional flows, or one flow of 0 on day 1.
FlowSets == {<<>>, <<[date |-> 1, amount |-> 0]>>}

NoCall == [op |-> "none"]

NoMetrics ==
    [absolute_returns |-> None, rolling_returns |-> None, cagr |-> None,
     xirr |-> None, sharpe_ratio |-> None]

\* The values a metric takes in analyze's bundle: the calculators return
\* None for 'unavailable'; the rolling metric is a Series mean, nan when the
\* Series is empty.
SharpeInputs ==
    {None, Num(3, 10), Num(1, 2), Int2Num(1), Num(3, 2), Num(8, 5)}

CagrInputs == {None} \cup {Int2Num(c) : c \in {5, 7, 10, 15, 16}}

RollingInputs == {NaN} \cup {Int2Num(r) : r \in {3, 8, 12, 13}}

XirrInputs == {None} \cup {Int2Num(x) : x \in {4, 16, 20}}

MetricsBundles ==
    {[absolute_returns |-> None, rolling_returns |-> r, cagr |-> c,
      xirr |-> x, sharpe_ratio |-> s] :
        r \in RollingInputs, c \in CagrInputs, x \in XirrInputs, s \in SharpeInputs}

(***************************************************************************)
(* Operations                                                              *)
(***************************************************************************)
\* FundAnalyzer.__init__: preprocess, then fetch the risk-free rate.
Construct ==
    /\ phase = "new"
    /\ IF raw_data = <<>>
       THEN /\ phase' = "failed"
            /\ result' = KeyError
            /\ UNCHANGED <<df, risk_free_rate>>
       ELSE /\ df' \in PreprocessData(raw_data)
            /\ risk_free_rate' = GetRiskFreeRate(fetch)
            /\ phase' = "constructed"
            /\ result' = None
    /\ UNCHANGED <<raw_data, fetch, call, metrics>>

CalcAbsoluteReturns(dates) ==
    /\ phase = "constructed"
    /\ \E start \in dates, end \in dates :
          /\ call' = [op |-> "absolute_returns", start |-> start, end |-> end]
          /\ result' = CalculateAbsoluteReturns(df, start, end)
    /\ UNCHANGED <<raw_data, fetch, phase, df, risk_free_rate, metrics>>

\* analyze's rolling metric: calculate_rolling_returns(window).mean()
CalcRollingReturns ==
    /\ phase = "constructed"
    /\ \E window_months \in 1..MaxMonths :
          /\ call' = [op |-> "rolling_returns", window_months |-> window_months]
          /\ result' = RollingMetric(df, window_months)
    /\ UNCHANGED <<raw_data, fetch, phase, df, risk_free_rate, metrics>>

CalcCagr ==
    /\ phase = "constructed"
    /\ \E years \in 1..MaxYears :
          /\ call' = [op |-> "cagr", years |-> years]
          /\ result' = CalculateCagr(df, years)
    /\ UNCHANGED <<raw_data, fetch, phase, df, risk_free_rate, metrics>>

CalcXirr ==
    /\ phase = "constructed"
    /\ \E start \in QueryDates, end \in QueryDates, flows \in FlowSets :
          /\ call' = [op |-> "xirr", start |-> start, end |-> end, flows |-> flows]
          /\ result' = CalculateXirr(df, start, end, flows)
    /\ UNCHANGED <<raw_data, fetch, phase, df, risk_free_rate, metrics>>

CalcSharpe ==
    /\ phase = "constructed"
    /\ \E window_years \in 1..MaxYears :
          /\ call' = [op |-> "sharpe_ratio", window_years |-> window_years]
          /\ result' = CalculateSharpeRatio(df, risk_free_rate, window_years)
    /\ UNCHANGED <<raw_data, fetch, phase, df, risk_free_rate, metrics>>

GetRecommendation ==
    /\ phase = "constructed"
    /\ call' = [op |-> "recommendation"]
    /\ result' = GetInvestmentRecommendation(metrics)
    /\ UNCHANGED <<raw_data, fetch, phase, df, risk_free_rate, metrics>>

(***************************************************************************)
(* Spec: an analyzer built from a daily series, then queried               *)
(***************************************************************************)
Init ==
    /\ raw_data \in LongInputs
    /\ fetch \in FetchOutcomes
    /\ phase = "new"
    /\ df = <<>>
    /\ risk_free_rate = 0
    /\ call = NoCall
    /\ metrics = NoMetrics
    /\ result = None

Next ==
    \/ Construct
    \/ CalcAbsoluteReturns(QueryDates)
    \/ CalcRollingReturns
    \/ CalcCagr
    \/ CalcXirr
    \/ CalcSharpe

Spec == Init /\ [][Next]_vars

(***************************************************************************)
(* SpecSeries: every small collection of records with positive navs,       *)
(* ingested and then asked for one absolute return                         *)
(***************************************************************************)
InitSeries ==
    /\ raw_data \in SmallInputs(1)
    /\ fetch = [k |-> "error", v |-> 0]
    /\ phase = "new"
    /\ df = <<>>
    /\ risk_free_rate = 0
    /\ call = NoCall
    /\ metrics = NoMetrics
    /\ result = None

FirstAbsoluteReturns == call = NoCall /\ CalcAbsoluteReturns(Days)

NextSeries == Construct \/ FirstAbsoluteReturns

SpecSeries == InitSeries /\ [][NextSeries]_vars

(***************************************************************************)
(* SpecIngest: every small collection of records, a nav of 0 among them,   *)
(* ingested                                                                *)
(***************************************************************************)
InitIngest ==
    /\ raw_data \in SmallInputs(0)
    /\ fetch = [k |-> "error", v |-> 0]
    /\ phase = "new"
    /\ df = <<>>
    /\ risk_free_rate = 0
    /\ call = NoCall
    /\ metrics = NoMetrics
    /\ result = None

NextIngest == Construct

SpecIngest == InitIngest /\ [][NextIngest]_vars

(***************************************************************************)
(* SpecRecommend: the scoring applied to every metrics bundle              *)
(***************************************************************************)
InitRecommend ==
    /\ raw_data = RoundTripInput
    /\ fetch = [k |-> "error", v |-> 0]
    /\ phase = "constructed"
    /\ df \in PreprocessData(RoundTripInput)
    /\ risk_free_rate = GetRiskFreeRate(fetch)
    /\ call = NoCall
    /\ metrics \in MetricsBundles
    /\ result = None

NextRecommend == GetRecommendation

SpecRecommend == InitRecommend /\ [][NextRecommend]_vars

(***************************************************************************)
(* Properties                                                              *)
(***************************************************************************)
Range(s) == {s[i] : i \in 1..Len(s)}

MetricNames == {"sharpe_ratio", "cagr", "rolling_returns", "xirr"}

AllAvailable(m) == \A name \in MetricNames : m[name].k = "num"

SharpePoints(v) ==
    IF 2 * v.n > 3 * v.d THEN 3
    ELSE IF v.n > v.d THEN 2
    ELSE IF 2 * v.n > v.d THEN 1
    ELSE 0

CagrPoints(v) ==
    IF v.n > 15 * v.d THEN 3
    ELSE IF v.n > 10 * v.d THEN 2
    ELSE IF v.n > 7 * v.d THEN 1
    ELSE 0

RollingPoints(v) ==
    IF v.n > 12 * v.d THEN 2
    ELSE IF v.n > 8 * v.d THEN 1
    ELSE 0

TimingPoint(x, c) == IF x.n * c.d > c.n * x.d THEN 1 ELSE 0

ExpectedScore(m) ==
    SharpePoints(m.sharpe_ratio) + CagrPoints(m.cagr)
        + RollingPoints(m.rolling_returns) + TimingPoint(m.xirr, m.cagr)

BestBundle ==
    [absolute_returns |-> None, rolling_returns |-> Int2Num(13),
     cagr |-> Int2Num(16), xirr |-> Int2Num(20), sharpe_ratio |-> Num(8, 5)]

WorstBundle ==
    [absolute_returns |-> None, rolling_returns |-> Int2Num(3),
     cagr |-> Int2Num(5), xirr |-> Int2Num(4), sharpe_ratio |-> Num(3, 10)]

\* C1: when sharpe, cagr, rolling return and xirr are all numbers, the score is
\* sharpePoints + cagrPoints + rollingPoints + timingPoint (strict thresholds
\* 1.5/1.0/0.5, 15/10/7, 12/8, xirr > cagr), and the recommendation is BUY MORE
\* exactly when score >= 7, HOLD exactly when 4 <= score < 7, EXIT exactly when
\* score < 4; the bundle {1.6, 16, 13, 20} scores 9 (BUY MORE) and
\* {0.3, 5, 3, xirr < cagr} scores 0 (EXIT).
C1_ScoreAndRecommendation ==
    (call.op = "recommendation" /\ AllAvailable(metrics)) =>
        /\ result.k = "recommendation"
        /\ result.score = ExpectedScore(metrics)
        /\ result.recommendation = "BUY MORE UNITS" <=> result.score >= 7
        /\ result.recommendation = "CONTINUE HOLDING"
              <=> (result.score >= 4 /\ result.score < 7)
        /\ result.recommendation = "EXIT FUND" <=> result.score < 4
        /\ metrics = BestBundle =>
              (result.score = 9 /\ result.recommendation = "BUY MORE UNITS")
        /\ metrics = WorstBundle =>
              (result.score = 0 /\ result.recommendation = "EXIT FUND")

\* A bundle on a threshold (sharpe exactly 1.5, cagr exactly 15, rolling
\* exactly 12, xirr equal to cagr... ) has been scored: 2 + 2 + 1 + 0.
C1_Witness ==
    /\ call.op = "recommendation"
    /\ metrics.sharpe_ratio = Num(3, 2)
    /\ metrics.cagr = Int2Num(15)
    /\ metrics.rolling_returns = Int2Num(12)
    /\ metrics.xirr = Int2Num(4)
    /\ result.k = "recommendation"
    /\ result.score = 5
    /\ result.recommendation = "CONTINUE HOLDING"

IsUnavailable(v) == v.k \in {"none", "nan"}

InsufficientReason(name) ==
    CASE name = "sharpe_ratio" -> "insufficient data for sharpe_ratio"
      [] name = "cagr" -> "insufficient data for cagr"
      [] name = "rolling_returns" -> "insufficient data for rolling_returns"
      [] OTHER -> "insufficient data for xirr"

LowValueReasons(name) ==
    CASE name = "sharpe_ratio" -> {"Poor risk-adjusted returns"}
      [] name = "cagr" -> {"Weak growth"}
      [] name = "rolling_returns" -> {"Inconsistent performance"}
      [] OTHER -> {}

\* C2: with any of the four metrics unavailable (None, or the nan mean of an
\* empty rolling series), get_investment_recommendation still returns a
\* result; each unavailable metric adds an 'insufficient data' reason and is
\* not given the reason of a low value.
C2_UnavailableMetricsExplained ==
    call.op = "recommendation" =>
        /\ result.k = "recommendation"
        /\ \A name \in MetricNames :
              IsUnavailable(metrics[name]) =>
                  /\ InsufficientReason(name) \in Range(result.reasons)
                  /\ LowValueReasons(name) \cap Range(result.reasons) = {}

\* C3: calculate_xirr ends with a converged percentage or with
\* 'unavailable'; it never raises.
C3_XirrConvergedOrUnavailable ==
    call.op = "xirr" => result.k \in {"none", "num"}

\* C4: on the schedule [-100 @ day 0, +110 @ day 365] with no additional
\* flows, calculate_xirr returns 10% within 1e-4.
C4_RoundTripTenPercent ==
    (/\ raw_data = RoundTripInput
     /\ call = [op |-> "xirr", start |-> 0, end |-> DaysPerYear, flows |-> <<>>])
        => /\ result.k = "num"
           /\ ~NumLess(Tolerance, NumAbs(NumSub(result, Int2Num(10))))

ObservationsIn(start, end) ==
    Cardinality({i \in 1..Len(raw_data) :
                    raw_data[i].timestamp >= start /\ raw_data[i].timestamp <= end})

\* C5: the rolling-return metric is 'unavailable' whenever the range
\* [asOf - windowDays, asOf] holds fewer than windowDays + 1 observations, a
\* mean of window returns otherwise, and never the nan mean of no returns.
C5_RollingNeedsWindowPlusOne ==
    call.op = "rolling_returns" =>
        LET window_days == call.window_months * DaysPerMonth
            as_of == MaxOf(Timestamps(raw_data))
            count == ObservationsIn(as_of - window_days, as_of)
        IN  /\ result # NaN
            /\ count < window_days + 1 => result = None
            /\ count >= window_days + 1 => result.k = "num"

\* C6: calculate_sharpe_ratio is 'unavailable' whenever its window supplies
\* fewer than 252 defined daily returns.
C6_SharpeNeedsDefinedReturns ==
    call.op = "sharpe_ratio" =>
        LET as_of == MaxTimestamp(df)
            window == PeriodData(df, as_of - call.window_years * DaysPerYear, as_of)
            defined == Len(SelectSeq(window, DefinedReturn))
        IN  defined < TradingDays => result = None

LastSupplied(t) ==
    raw_data[MaxOf({i \in 1..Len(raw_data) : raw_data[i].timestamp = t})]

\* C7: the series held after construction is strictly increasing by
\* timestamp, and for a repeated timestamp it holds the last record supplied.
C7_StrictlyIncreasingKeepLast ==
    phase = "constructed" =>
        /\ \A i \in 1..(Len(df) - 1) : df[i].timestamp < df[i + 1].timestamp
        /\ \A i \in 1..Len(df) : df[i].nav = LastSupplied(df[i].timestamp).nav

InRangeIndexes(start, end) ==
    {i \in 1..Len(raw_data) :
        raw_data[i].timestamp >= start /\ raw_data[i].timestamp <= end}

\* The returns (last - first) / first * 100 over an earliest and a latest of
\* the supplied records with start <= timestamp <= end.
ExpectedAbsoluteReturns(start, end) ==
    LET in == InRangeIndexes(start, end)
        times == {raw_data[i].timestamp : i \in in}
    IN  {FloatDiv((raw_data[l].nav - raw_data[f].nav) * 100, 1, raw_data[f].nav, 1) :
            <<f, l>> \in {p \in in \X in :
                            /\ p[1] # p[2]
                            /\ raw_data[p[1]].timestamp = MinOf(times)
                            /\ raw_data[p[2]].timestamp = MaxOf(times)}}

C9_RateFetchedOrDefault ==
    LET expected == IF fetch.k = "value" THEN fetch.v ELSE 4
    IN  /\ phase = "failed" => raw_data = <<>>
        /\ phase = "constructed" => risk_free_rate = expected
        /\ (call.op = "sharpe_ratio" /\ result # None) => result.rate = expected

\* After a fetch that delivered an empty frame, a Sharpe ratio was computed
\* with the rate 4.
C9_Witness ==
    /\ phase = "constructed"
    /\ fetch.k = "empty"
    /\ call.op = "sharpe_ratio"
    /\ result # None
    /\ result.rate = 4

\* C10: records holding a nav <= 0 are rejected at construction, so every
\* series the calculators read has only positive navs.
C10_NonPositiveNavRejected ==
    phase = "constructed" => \A i \in 1..Len(df) : df[i].nav > 0

====
